---- MODULE Spec2Model ----
(***************************************************************************)
(* The transactional core of tobi_backend (core/views.py, core/models.py): *)
(* short-let bookings, commissions, investments and payment                *)
(* reconciliation over one shared relational store.                        *)
(*                                                                         *)
(* Money is a DecimalField with two decimal places: amounts are integers   *)
(* counted in hundredths of the currency unit.  Every view is written once *)
(* as a step function (one store access per step, in source order) over    *)
(* the store and the request's in-memory model instances; a whole request  *)
(* is the composition of its steps (Handle), and the step-wise actions     *)
(* interleave the same steps of several requests.  The views run without   *)
(* transaction.atomic, so every save() is its own commit, and save()       *)
(* writes the whole row from the in-memory instance.                       *)
(***************************************************************************)
EXTENDS Integers, Sequences, FiniteSets, TLC

VARIABLES now, users, bookings, commissions, refunds, investments, gifts, reqs

vars == <<now, users, bookings, commissions, refunds, investments, gifts, reqs>>
store == <<users, bookings, commissions, refunds, investments, gifts>>

\* ------------------------------------------------------------------ bounds
\* Booking dates range over 1..MaxDay.
MaxDay == 3
\* The clock runs over 0..MaxNow ticks.
MaxNow == 1
\* Ticks of the clock per calendar day (timezone.now().date() truncates).
TicksPerDay == 1
\* Gifts made in a behaviour.
MaxGifts == 2
\* Weeks the clock can be moved on by.
MaxWeeks == 2

\* ------------------------------------------------------- program constants
\* timedelta(days=365): the length of a membership.
MembershipDays == 365
\* Decimal("5000000.00"), in hundredths.
InstallmentCredit == 500000000
\* Decimal("0.10"), as a percentage.
CommissionPercent == 10
\* timedelta(days=7): the life of a short-let gift.
GiftDays == 7
\* Decimal("0.60"), as a percentage.
InstallmentPercent == 60

\* A NULL date or foreign key.
Null == 0 - 1

\* ------------------------------------------------------------- population
Accounts == {"u1", "u2"}
Slots == {1, 2}
Dates == 1..MaxDay

\* The Property rows.  No operation of the model edits a listing.
Listings ==
    [ s1 |-> [agent |-> "a1", property_type |-> "shortlet", price |-> 12,
              cost_price |-> Null, is_approved |-> TRUE],
      s2 |-> [agent |-> "a2", property_type |-> "shortlet", price |-> 10,
              cost_price |-> Null, is_approved |-> TRUE],
      x1 |-> [agent |-> "a1", property_type |-> "shortlet", price |-> 10,
              cost_price |-> Null, is_approved |-> FALSE],
      i1 |-> [agent |-> "a1", property_type |-> "investment", price |-> 10,
              cost_price |-> 1000, is_approved |-> TRUE],
      i2 |-> [agent |-> "a2", property_type |-> "investment", price |-> 10,
              cost_price |-> 1003, is_approved |-> TRUE] ]

ListingIds == DOMAIN Listings
\* The listings booking requests name: two bookable ones and one not approved.
ShortletInputs == {"s1", "s2", "x1"}

\* The User rows the model starts with.
InitialUsers ==
    [ u1 |-> [role |-> "CUSTOMER", is_verified |-> FALSE, membership_tier |-> "",
              membership_expires_at |-> Null, shortlet_credit |-> 24,
              was_verified_as_agent |-> FALSE,
              was_verified_as_investor |-> FALSE, is_staff |-> FALSE],
      u2 |-> [role |-> "INVESTOR", is_verified |-> FALSE, membership_tier |-> "",
              membership_expires_at |-> Null, shortlet_credit |-> 10,
              was_verified_as_agent |-> FALSE,
              was_verified_as_investor |-> FALSE, is_staff |-> FALSE] ]

\* Booking rows entered through the admin site: unpaid (the column's
\* default), each with a reference typed in by the admin.
SeedBookings ==
    << [user |-> "u1", property |-> "s1", start_date |-> 1, end_date |-> 2,
        total_price |-> 12, is_cancelled |-> FALSE, is_paid |-> FALSE,
        tx_ref |-> <<"Admin", 1>>],
       [user |-> "u2", property |-> "s2", start_date |-> 1, end_date |-> 3,
        total_price |-> 20, is_cancelled |-> FALSE, is_paid |-> FALSE,
        tx_ref |-> <<"Admin", 2>>] >>

\* A request's model instances before it has read them.
NoBooking == SeedBookings[1]

\* ------------------------------------------------------------ pure helpers
\* A Decimal n/den stored in a column with two decimal places: rounded to the
\* nearest hundredth, ties to even (n >= 0).
Quantize(n, den) ==
    LET fl == n \div den
        rm == n % den
    IN  IF 2 * rm > den \/ (2 * rm = den /\ fl % 2 = 1) THEN fl + 1 ELSE fl

\* timezone.now().date()
Today(t) == t \div TicksPerDay

\* timezone.now() + timedelta(days=365)
MembershipExpiry(t) == t + MembershipDays * TicksPerDay

Idle == [op |-> "none", pc |-> "idle"]

Db == [users |-> users, bookings |-> bookings, commissions |-> commissions,
       refunds |-> refunds, investments |-> investments, gifts |-> gifts]

Res(d, q) == [d |-> d, q |-> q]

Done(d, q, outcome) == [d |-> d, q |-> [q EXCEPT !.pc = "done", !.outcome = outcome]]

Goto(d, q, pc) == [d |-> d, q |-> [q EXCEPT !.pc = pc]]

\* ---------------------------------------------------------- Booking engine
\* (mutant of Overlaps: only a range that contains the requested one counts)
OverlapsContaining(bs, property, start, end) ==
    \E i \in DOMAIN bs :
        /\ bs[i].property = property
        /\ ~bs[i].is_cancelled
        /\ bs[i].start_date <= start
        /\ bs[i].end_date >= end

\* Booking.objects.filter(property=property, is_cancelled=False,
\*                        start_date__lt=end, end_date__gt=start).exists()
Overlaps(bs, property, start, end) ==
    \E i \in DOMAIN bs :
        /\ bs[i].property = property
        /\ ~bs[i].is_cancelled
        /\ bs[i].start_date < end
        /\ bs[i].end_date > start

\* unique_together = ('property', 'start_date', 'end_date'): a row with the
\* same triple exists (cancelled rows count: the constraint ignores the flag).
SameTriple(bs, property, start, end) ==
    \E i \in DOMAIN bs :
        /\ bs[i].property = property
        /\ bs[i].start_date = start
        /\ bs[i].end_date = end

\* (mutant of TotalPrice: one night is charged whatever the range)
TotalPriceOneNight(property, start, end) == Listings[property].price

\* days * property.price, with days = (end - start).days
TotalPrice(property, start, end) == (end - start) * Listings[property].price

\* (mutant of CreditCovers: any non-zero credit passes)
CreditNonZero(credit, total) == credit # 0

\* user.shortlet_credit and user.shortlet_credit >= total_price
CreditCovers(credit, total) == credit # 0 /\ credit >= total

\* The request as it enters perform_create: request.user was read from the
\* store when the request was authenticated.
NewCreateBooking(d, actor, property, start, end) ==
    [op |-> "createBooking", pc |-> "validate", outcome |-> "",
     actor |-> actor, user |-> d.users[actor], property |-> property,
     start_date |-> start, end_date |-> end, total_price |-> 0]

\* BookingSerializer validation, then BookingCreateView.perform_create.
createBooking(d, q) ==
    CASE q.pc = "validate" ->
            \* UniqueTogetherValidator of the ModelSerializer
            IF SameTriple(d.bookings, q.property, q.start_date, q.end_date)
            THEN Done(d, q, "NotUnique")
            ELSE Goto(d, q, "check")
      [] q.pc = "check" ->
            IF ~Listings[q.property].is_approved
               \/ Listings[q.property].property_type # "shortlet"
            THEN Done(d, q, "ListingUnavailable")
            ELSE IF Overlaps(d.bookings, q.property, q.start_date, q.end_date)
            THEN Done(d, q, "DateConflict")
            ELSE Goto(d, q, "debit")
      [] q.pc = "debit" ->
            LET total == TotalPrice(q.property, q.start_date, q.end_date)
            IN  IF q.end_date - q.start_date <= 0
                THEN Done(d, q, "InvalidRange")
                ELSE IF ~CreditCovers(q.user.shortlet_credit, total)
                THEN Done(d, q, "InsufficientCredit")
                ELSE LET u == [q.user EXCEPT !.shortlet_credit = @ - total]
                     IN  Res([d EXCEPT !.users[q.actor] = u],
                             [q EXCEPT !.user = u, !.total_price = total,
                                       !.pc = "insert"])
      [] q.pc = "insert" ->
            \* serializer.save(...): the INSERT, under the table's constraint
            IF SameTriple(d.bookings, q.property, q.start_date, q.end_date)
            THEN Done(d, q, "IntegrityError")
            ELSE Done([d EXCEPT !.bookings = Append(@,
                          [user |-> q.actor, property |-> q.property,
                           start_date |-> q.start_date, end_date |-> q.end_date,
                           total_price |-> q.total_price,
                           is_cancelled |-> FALSE, is_paid |-> TRUE,
                           tx_ref |-> <<"TobiTx", Len(d.bookings) + 1>>])],
                      q, "Created")

\* 10% of the booking's total, as stored in Commission.amount.
\* (mutant of CommissionAmount: the percentage is not divided out)
CommissionAmountTimesTen(total) == total * CommissionPercent

CommissionAmount(total) == Quantize(total * CommissionPercent, 100)

\* (mutant of AlreadyPaid: the flag is not looked at)
AlreadyPaidNever(b) == FALSE

\* if booking.is_paid
AlreadyPaid(b) == b.is_paid

NewMarkPaid(booking_id) ==
    [op |-> "markPaid", pc |-> "get", outcome |-> "", booking_id |-> booking_id,
     booking |-> NoBooking]

\* MarkBookingAsPaidView.post (the second class of that name, the one bound)
markPaid(d, q) ==
    CASE q.pc = "get" ->
            IF q.booking_id \notin DOMAIN d.bookings
            THEN Done(d, q, "NotFound")
            ELSE IF AlreadyPaid(d.bookings[q.booking_id])
            THEN Done(d, q, "AlreadyPaid")
            ELSE Res(d, [q EXCEPT !.booking = d.bookings[q.booking_id],
                                  !.pc = "save"])
      [] q.pc = "save" ->
            LET b == [q.booking EXCEPT !.is_paid = TRUE]
            IN  Res([d EXCEPT !.bookings[q.booking_id] = b],
                    [q EXCEPT !.booking = b, !.pc = "commission"])
      [] q.pc = "commission" ->
            \* Commission.objects.create: booking is a OneToOneField
            IF \E i \in DOMAIN d.commissions :
                   d.commissions[i].booking = q.booking_id
            THEN Done(d, q, "IntegrityError")
            ELSE Done([d EXCEPT !.commissions = Append(@,
                          [agent |-> Listings[q.booking.property].agent,
                           booking |-> q.booking_id,
                           amount |-> CommissionAmount(q.booking.total_price),
                           withdrawal_requested |-> FALSE,
                           is_withdrawn |-> FALSE])],
                      q, "Paid")

NewCancel(actor, booking_id) ==
    [op |-> "cancel", pc |-> "get", outcome |-> "", actor |-> actor,
     booking_id |-> booking_id, booking |-> NoBooking]

\* (mutant of MarkCancelled: the booking is also taken back to unpaid)
MarkCancelledUnpaid(b) == [b EXCEPT !.is_cancelled = TRUE, !.is_paid = FALSE]

\* booking.is_cancelled = True
MarkCancelled(b) == [b EXCEPT !.is_cancelled = TRUE]

\* (mutant of RefundDue: a refund is logged for every cancellation)
RefundAlways(b) == TRUE

\* if booking.is_paid
RefundDue(b) == b.is_paid

\* (mutant of Started: the day of the start is not counted as started)
StartedAfterFirstDay(b, t) == b.start_date < Today(t)

\* booking.start_date <= timezone.now().date()
Started(b, t) == b.start_date <= Today(t)

\* CancelBookingView.post
cancelBooking(d, q, t) ==
    CASE q.pc = "get" ->
            IF q.booking_id \notin DOMAIN d.bookings
               \/ d.bookings[q.booking_id].user # q.actor
            THEN Done(d, q, "NotFound")
            ELSE IF d.bookings[q.booking_id].is_cancelled
            THEN Done(d, q, "AlreadyCancelled")
            ELSE IF Started(d.bookings[q.booking_id], t)
            THEN Done(d, q, "BookingStarted")
            ELSE Res(d, [q EXCEPT !.booking = d.bookings[q.booking_id],
                                  !.pc = "save"])
      [] q.pc = "save" ->
            LET b == MarkCancelled(q.booking)
            IN  IF RefundDue(b)
                THEN Res([d EXCEPT !.bookings[q.booking_id] = b],
                         [q EXCEPT !.booking = b, !.pc = "refund"])
                ELSE Done([d EXCEPT !.bookings[q.booking_id] = b], q, "Cancelled")
      [] q.pc = "refund" ->
            Done([d EXCEPT !.refunds = Append(@,
                     [user |-> q.actor, amount |-> q.booking.total_price,
                      reason |-> q.booking.property, booking |-> q.booking_id])],
                 q, "Cancelled")

NewAdminCancel(booking_id) ==
    [op |-> "adminCancel", pc |-> "get", outcome |-> "",
     booking_id |-> booking_id, booking |-> NoBooking]

\* AdminCancelBookingView.post
adminCancelBooking(d, q) ==
    CASE q.pc = "get" ->
            IF q.booking_id \notin DOMAIN d.bookings
            THEN Done(d, q, "NotFound")
            ELSE IF d.bookings[q.booking_id].is_cancelled
            THEN Done(d, q, "AlreadyCancelled")
            ELSE Res(d, [q EXCEPT !.booking = d.bookings[q.booking_id],
                                  !.pc = "save"])
      [] q.pc = "save" ->
            LET b == MarkCancelled(q.booking)
            IN  IF RefundDue(b)
                THEN Res([d EXCEPT !.bookings[q.booking_id] = b],
                         [q EXCEPT !.booking = b, !.pc = "refund"])
                ELSE Done([d EXCEPT !.bookings[q.booking_id] = b], q, "Cancelled")
      [] q.pc = "refund" ->
            Done([d EXCEPT !.refunds = Append(@,
                     [user |-> q.booking.user, amount |-> q.booking.total_price,
                      reason |-> q.booking.property, booking |-> q.booking_id])],
                 q, "Cancelled")

\* -------------------------------------------------------- Investment engine
\* (mutant of InstallmentPaid: the fraction is cut, not rounded)
InstallmentPaidFloor(total) == (total * InstallmentPercent) \div 100

\* total_price * Decimal("0.60"), as stored in Investment.amount_paid.
InstallmentPaid(total) == Quantize(total * InstallmentPercent, 100)

\* total_price - amount_paid with amount_paid not yet rounded, as stored in
\* Investment.remaining_balance.
InstallmentRemaining(total) == Quantize(total * (100 - InstallmentPercent), 100)

NoInvestment ==
    [investor |-> "u1", property |-> "i1", payment_plan |-> "full",
     total_price |-> 0, amount_paid |-> 0, remaining_balance |-> 0,
     status |-> "active", tx_ref |-> <<"TobiInvest", 0>>]

\* (mutant of SamePair: the storage layer has no such constraint)
SamePairNever(invs, investor, property) == FALSE

\* unique_together = ('investor', 'property'), as the INSERT meets it.
SamePair(invs, investor, property) ==
    \E i \in DOMAIN invs :
        invs[i].investor = investor /\ invs[i].property = property

NewCreateInvestment(d, actor, property, plan) ==
    [op |-> "createInvestment", pc |-> "save_user", outcome |-> "",
     actor |-> actor, user |-> d.users[actor], property |-> property,
     payment_plan |-> plan, investment |-> NoInvestment]

\* InvestmentSerializer validation, then CreateInvestmentView.perform_create.
\* The serializer has no validator for unique_together: investor is read-only.
createInvestment(d, q, t) ==
    CASE q.pc = "save_user" ->
            LET total == Listings[q.property].cost_price
                inv == [investor |-> q.actor, property |-> q.property,
                        payment_plan |-> q.payment_plan, total_price |-> total,
                        amount_paid |-> total, remaining_balance |-> 0,
                        status |-> "active", tx_ref |-> <<"TobiInvest", 0>>]
            IN  IF q.payment_plan \notin {"full", "installment"}
                THEN Done(d, q, "InvalidPlan")
                ELSE IF q.user.role # "INVESTOR"
                THEN Done(d, q, "NotInvestor")
                ELSE IF ~Listings[q.property].is_approved
                THEN Done(d, q, "NotApproved")
                ELSE IF total = Null \/ total = 0
                THEN Done(d, q, "MissingCostPrice")
                ELSE IF q.payment_plan = "full"
                THEN LET u == [q.user EXCEPT
                                  !.membership_tier = "Platinum",
                                  !.membership_expires_at = MembershipExpiry(t)]
                     IN  Res([d EXCEPT !.users[q.actor] = u],
                             [q EXCEPT !.user = u, !.investment = inv,
                                       !.pc = "insert"])
                ELSE LET u == [q.user EXCEPT
                                  !.membership_tier = "Gold",
                                  !.membership_expires_at = MembershipExpiry(t),
                                  !.shortlet_credit = InstallmentCredit]
                     IN  Res([d EXCEPT !.users[q.actor] = u],
                             [q EXCEPT !.user = u,
                                       !.investment =
                                           [inv EXCEPT
                                              !.amount_paid = InstallmentPaid(total),
                                              !.remaining_balance =
                                                  InstallmentRemaining(total)],
                                       !.pc = "insert"])
      [] q.pc = "insert" ->
            \* serializer.save(...): the INSERT, under unique_together
            \* ('investor', 'property'); status takes the column's default
            IF SamePair(d.investments, q.actor, q.property)
            THEN Done(d, q, "IntegrityError")
            ELSE Done([d EXCEPT !.investments = Append(@,
                          [q.investment EXCEPT
                             !.tx_ref = <<"TobiInvest", Len(d.investments) + 1>>])],
                      q, "Created")

\* (mutant of TopUpApply: the amount is added to amount_paid only)
TopUpPaidOnly(inv, amount) == [inv EXCEPT !.amount_paid = @ + amount]

\* investment.amount_paid += amount; investment.remaining_balance -= amount
TopUpApply(inv, amount) ==
    [inv EXCEPT !.amount_paid = @ + amount, !.remaining_balance = @ - amount]

\* (mutant of TopUpCompletes: any top-up completes the investment)
TopUpAlwaysCompletes(inv) == TRUE

\* if investment.remaining_balance == 0
TopUpCompletes(inv) == inv.remaining_balance = 0

\* (mutant of ExceedsBalance: the amount is held against the whole price)
ExceedsTotal(amount, inv) == amount > inv.total_price

\* if amount > investment.remaining_balance
ExceedsBalance(amount, inv) == amount > inv.remaining_balance

NewTopUp(d, actor, investment_id, amount) ==
    [op |-> "topUp", pc |-> "get", outcome |-> "", actor |-> actor,
     user |-> d.users[actor], investment_id |-> investment_id,
     amount |-> amount, investment |-> NoInvestment]

\* TopUpInvestmentView.post
topUp(d, q, t) ==
    CASE q.pc = "get" ->
            IF q.amount <= 0
            THEN Done(d, q, "InvalidAmount")
            ELSE IF q.investment_id \notin DOMAIN d.investments
                    \/ d.investments[q.investment_id].investor # q.actor
            THEN Done(d, q, "NotFound")
            ELSE IF d.investments[q.investment_id].status = "completed"
            THEN Done(d, q, "AlreadyCompleted")
            ELSE IF ExceedsBalance(q.amount, d.investments[q.investment_id])
            THEN Done(d, q, "AmountExceedsBalance")
            ELSE LET inv == TopUpApply(d.investments[q.investment_id], q.amount)
                 IN  IF TopUpCompletes(inv)
                     THEN Res(d, [q EXCEPT
                                    !.investment = [inv EXCEPT !.status = "completed"],
                                    !.pc = "save_user"])
                     ELSE Res(d, [q EXCEPT !.investment = inv, !.pc = "save"])
      [] q.pc = "save_user" ->
            LET u == [q.user EXCEPT
                         !.membership_tier = "Platinum",
                         !.membership_expires_at = MembershipExpiry(t),
                         !.shortlet_credit = 0]
            IN  Res([d EXCEPT !.users[q.actor] = u],
                    [q EXCEPT !.user = u, !.pc = "save"])
      [] q.pc = "save" ->
            Done([d EXCEPT !.investments[q.investment_id] = q.investment],
                 q, "ToppedUp")

\* ------------------------------------------------- Payment reconciliation
\* The rows of a table that carry the reference (tx_ref is unique).
WithRef(table, ref) == {i \in DOMAIN table : table[i].tx_ref = ref}

\* (mutant of Settle: the status is left as it was)
SettleKeepingStatus(inv) ==
    [inv EXCEPT !.amount_paid = inv.total_price, !.remaining_balance = 0]

\* investment.amount_paid = investment.total_price; remaining_balance = 0;
\* status = "completed"
Settle(inv) ==
    [inv EXCEPT !.amount_paid = inv.total_price, !.remaining_balance = 0,
                !.status = "completed"]

NewWebhook(ref, status) ==
    [op |-> "webhook", pc |-> "booking", outcome |-> "", ref |-> ref,
     status |-> status, id |-> 0, booking |-> NoBooking,
     investment |-> NoInvestment, user |-> InitialUsers["u1"]]

\* FlutterwaveWebhookView.post, for an event 'charge.completed'
webhook(d, q, t) ==
    CASE q.pc = "booking" ->
            IF q.status # "successful"
            THEN Done(d, q, "NotSuccessful")
            ELSE IF WithRef(d.bookings, q.ref) = {}
            THEN Goto(d, q, "investment")
            ELSE LET i == CHOOSE i \in WithRef(d.bookings, q.ref) : TRUE
                 IN  IF ~d.bookings[i].is_paid
                     THEN Res(d, [q EXCEPT !.id = i, !.booking = d.bookings[i],
                                           !.pc = "save_booking"])
                     ELSE Goto(d, q, "investment")
      [] q.pc = "save_booking" ->
            Done([d EXCEPT !.bookings[q.id] = [q.booking EXCEPT !.is_paid = TRUE]],
                 q, "BookingPaid")
      [] q.pc = "investment" ->
            IF WithRef(d.investments, q.ref) = {}
            THEN Done(d, q, "NoMatch")
            ELSE LET i == CHOOSE i \in WithRef(d.investments, q.ref) : TRUE
                     inv == d.investments[i]
                 IN  IF inv.amount_paid < inv.total_price
                     THEN Res(d, [q EXCEPT
                                    !.id = i,
                                    !.investment = Settle(inv),
                                    !.pc = "load_investor"])
                     ELSE Done(d, q, "NoMatch")
      [] q.pc = "load_investor" ->
            \* investment.investor: the related row, read on first access
            Res(d, [q EXCEPT !.user = d.users[q.investment.investor],
                             !.pc = "save_investor"])
      [] q.pc = "save_investor" ->
            LET u == [q.user EXCEPT
                         !.membership_tier = "Platinum",
                         !.membership_expires_at = MembershipExpiry(t),
                         !.is_verified = TRUE]
            IN  Res([d EXCEPT !.users[q.investment.investor] = u],
                    [q EXCEPT !.user = u, !.pc = "save_investment"])
      [] q.pc = "save_investment" ->
            Done([d EXCEPT !.investments[q.id] = q.investment],
                 q, "InvestmentPaid")

\* The gateway's answer to the verification of a transaction: the envelope's
\* status, and the payment's status and reference.
NewVerify(actor, has_id, api_status, status, ref) ==
    [op |-> "verify", pc |-> "ask", outcome |-> "", actor |-> actor,
     has_id |-> has_id, api_status |-> api_status, status |-> status,
     ref |-> ref]

\* VerifyFlutterwavePaymentView.get: no statement of it reads or writes the
\* store.
verifyPayment(d, q) ==
    IF ~q.has_id
    THEN Done(d, q, "NoTransactionId")
    ELSE IF q.api_status = "success" /\ q.status = "successful"
    THEN Done(d, q, "Verified")
    ELSE Done(d, q, "VerificationFailed")

\* ------------------------------------------------------------------ Roles
\* User.Role
Roles == {"CUSTOMER", "AGENT", "INVESTOR", "ADMIN"}

\* valid_roles of SwitchUserRoleView
SwitchableRoles == {"CUSTOMER", "AGENT", "INVESTOR"}

\* The request as it enters post: request.user was read from the store when
\* the request was authenticated.
NewSwitchRole(d, actor, new_role) ==
    [op |-> "switchRole", pc |-> "switch", outcome |-> "", actor |-> actor,
     user |-> d.users[actor], new_role |-> new_role]

\* SwitchUserRoleView.post
switchRole(d, q) ==
    IF q.new_role \notin SwitchableRoles
    THEN Done(d, q, "InvalidRole")
    ELSE IF q.user.role = q.new_role
    THEN Done(d, q, "SameRole")
    ELSE LET u == [q.user EXCEPT
                     !.was_verified_as_agent =
                         IF q.user.role = "AGENT" /\ q.user.is_verified
                         THEN TRUE ELSE @,
                     !.was_verified_as_investor =
                         IF q.user.role = "INVESTOR" /\ q.user.is_verified
                         THEN TRUE ELSE @,
                     !.role = q.new_role,
                     !.is_verified = FALSE]
         IN  Done([d EXCEPT !.users[q.actor] = u], q, "Switched")

NewAssignAdmin(is_staff, user_id) ==
    [op |-> "assignAdmin", pc |-> "get", outcome |-> "", is_staff |-> is_staff,
     user_id |-> user_id, user |-> InitialUsers["u1"]]

\* AssignAdminRoleView.post
assignAdmin(d, q) ==
    CASE q.pc = "get" ->
            IF ~q.is_staff
            THEN Done(d, q, "PermissionDenied")
            ELSE IF q.user_id \notin DOMAIN d.users
            THEN Done(d, q, "NotFound")
            ELSE IF d.users[q.user_id].role = "ADMIN" /\ d.users[q.user_id].is_staff
            THEN Done(d, q, "AlreadyAdmin")
            ELSE Res(d, [q EXCEPT !.user = d.users[q.user_id], !.pc = "save"])
      [] q.pc = "save" ->
            Done([d EXCEPT !.users[q.user_id] =
                     [q.user EXCEPT !.role = "ADMIN", !.is_verified = TRUE,
                                    !.is_staff = TRUE]],
                 q, "Promoted")

\* ------------------------------------------------------ Commission ledger
\* The accounts of role AGENT, the owners of the listings. No operation of
\* the model writes their rows.
Agents == {"a1", "a2"}

RoleOf(d, actor) == IF actor \in Agents THEN "AGENT" ELSE d.users[actor].role

NoCommission ==
    [agent |-> "a1", booking |-> 0, amount |-> 0,
     withdrawal_requested |-> FALSE, is_withdrawn |-> FALSE]

NewRequestWithdrawal(actor, commission_id) ==
    [op |-> "requestWithdrawal", pc |-> "get", outcome |-> "", actor |-> actor,
     commission_id |-> commission_id, commission |-> NoCommission]

\* RequestWithdrawalView.post
requestWithdrawal(d, q) ==
    CASE q.pc = "get" ->
            IF q.commission_id \notin DOMAIN d.commissions
                  \/ d.commissions[q.commission_id].agent # q.actor
            THEN Done(d, q, "NotFound")
            ELSE IF d.commissions[q.commission_id].is_withdrawn
            THEN Done(d, q, "AlreadyWithdrawn")
            ELSE IF d.commissions[q.commission_id].withdrawal_requested
            THEN Done(d, q, "AlreadyRequested")
            ELSE Res(d, [q EXCEPT !.commission = d.commissions[q.commission_id],
                                  !.pc = "save"])
      [] q.pc = "save" ->
            Done([d EXCEPT !.commissions[q.commission_id] =
                     [q.commission EXCEPT !.withdrawal_requested = TRUE]],
                 q, "Requested")

\* (mutant of PendingWithdrawal: any commission not yet withdrawn)
NotYetWithdrawn(c) == ~c.is_withdrawn

\* Commission.objects.get(..., withdrawal_requested=True, is_withdrawn=False)
PendingWithdrawal(c) == c.withdrawal_requested /\ ~c.is_withdrawn

NewApproveWithdrawal(is_staff, commission_id) ==
    [op |-> "approveWithdrawal", pc |-> "get", outcome |-> "",
     is_staff |-> is_staff, commission_id |-> commission_id,
     commission |-> NoCommission]

\* ApproveWithdrawalView.post, behind permissions.IsAdminUser
approveWithdrawal(d, q) ==
    CASE q.pc = "get" ->
            IF ~q.is_staff
            THEN Done(d, q, "PermissionDenied")
            ELSE IF q.commission_id \notin DOMAIN d.commissions
                  \/ ~PendingWithdrawal(d.commissions[q.commission_id])
            THEN Done(d, q, "NotFound")
            ELSE Res(d, [q EXCEPT !.commission = d.commissions[q.commission_id],
                                  !.pc = "save"])
      [] q.pc = "save" ->
            Done([d EXCEPT !.commissions[q.commission_id] =
                     [q.commission EXCEPT !.is_withdrawn = TRUE,
                                          !.withdrawal_requested = FALSE]],
                 q, "Approved")

\* (mutant of InWallet: a commission leaves the wallet when it is requested)
InWalletUnrequested(c, agent) ==
    c.agent = agent /\ ~c.is_withdrawn /\ ~c.withdrawal_requested

\* Commission.objects.filter(agent=user, is_withdrawn=False)
InWallet(c, agent) == c.agent = agent /\ ~c.is_withdrawn

\* sum(c.amount for c in commissions), over the rows of the query
RECURSIVE SumAmounts(_, _)
SumAmounts(cs, agent) ==
    IF cs = << >> THEN 0
    ELSE (IF InWallet(Head(cs), agent) THEN Head(cs).amount ELSE 0)
            + SumAmounts(Tail(cs), agent)

NewWallet(d, actor) ==
    [op |-> "wallet", pc |-> "get", outcome |-> "", actor |-> actor,
     role |-> RoleOf(d, actor), wallet_balance |-> 0]

\* AgentWalletView.get
wallet(d, q) ==
    IF q.role # "AGENT"
    THEN Done(d, q, "OnlyAgents")
    ELSE Done(d, [q EXCEPT !.wallet_balance = SumAmounts(d.commissions, q.actor)],
              "Wallet")

\* ------------------------------------------------------------ Gift engine
\* E-mail addresses are written as the name of the account they belong to;
\* "x9" is the address of no account.
Emails == {"u2", "x9"}

\* User.objects.filter(email=...).first()
\* A NULL foreign key to User.
NoAccount == "-"

AccountOf(email) == IF email \in Accounts THEN email ELSE NoAccount

NoGift ==
    [sender |-> "u1", recipient_email |-> "x9", recipient_user |-> NoAccount,
     property |-> "s1", status |-> "pending", expires_at |-> Null,
     reassigned_to |-> NoAccount, converted_to_credit |-> FALSE]

\* converted_to_credit is a writable field of GiftSerializer.
NewCreateGift(actor, recipient_email, property, converted_to_credit) ==
    [op |-> "createGift", pc |-> "insert", outcome |-> "", actor |-> actor,
     recipient_email |-> recipient_email, property |-> property,
     converted_to_credit |-> converted_to_credit]

\* (mutant of GiftExpiry: every gift gets an expiry)
GiftExpiryAlways(property, t) == t + GiftDays * TicksPerDay

\* timezone.now() + timedelta(days=7) if property.property_type ==
\* 'shortlet' else None
GiftExpiry(property, t) ==
    IF Listings[property].property_type = "shortlet"
    THEN t + GiftDays * TicksPerDay ELSE Null

\* GiftCreateView.perform_create
createGift(d, q, t) ==
    IF ~Listings[q.property].is_approved
    THEN Done(d, q, "NotApproved")
    ELSE Done([d EXCEPT !.gifts = Append(@,
                  [sender |-> q.actor,
                   recipient_email |-> q.recipient_email,
                   recipient_user |-> AccountOf(q.recipient_email),
                   property |-> q.property,
                   status |-> "pending",
                   expires_at |-> GiftExpiry(q.property, t),
                   reassigned_to |-> NoAccount,
                   converted_to_credit |-> q.converted_to_credit])],
              q, "Created")

\* (mutant of Decidable: the gift's status is not looked at)
DecidableWhateverStatus(g, actor) == g.recipient_user = actor

\* Gift.objects.filter(id=gift_id, recipient_user=request.user).first(),
\* and gift.status == 'pending'
Decidable(g, actor) == g.recipient_user = actor /\ g.status = "pending"

NewDecide(actor, gift_id, action) ==
    [op |-> "decide", pc |-> "get", outcome |-> "", actor |-> actor,
     gift_id |-> gift_id, action |-> action, gift |-> NoGift]

\* (mutant of DecisionStatus: the decision is not written to the status)
DecisionStatusStaysPending(action) ==
    IF action \in {"accept", "decline"} THEN "pending" ELSE ""

\* The status an action of the URL gives the gift: 'accepted' for accept,
\* 'declined' for decline, none ("") for any other action.
DecisionStatus(action) ==
    IF action = "accept" THEN "accepted"
    ELSE IF action = "decline" THEN "declined"
    ELSE ""

\* GiftDecisionView.post
decide(d, q) ==
    CASE q.pc = "get" ->
            IF q.gift_id \notin DOMAIN d.gifts
                  \/ ~Decidable(d.gifts[q.gift_id], q.actor)
            THEN Done(d, q, "NotFound")
            ELSE IF DecisionStatus(q.action) # ""
            THEN Res(d, [q EXCEPT !.gift = [d.gifts[q.gift_id] EXCEPT
                                               !.status = DecisionStatus(q.action)],
                                  !.pc = "save"])
            ELSE Done(d, q, "InvalidAction")
      [] q.pc = "save" ->
            Done([d EXCEPT !.gifts[q.gift_id] = q.gift], q, "Decided")

NewReassign(actor, gift_id, new_email) ==
    [op |-> "reassign", pc |-> "get", outcome |-> "", actor |-> actor,
     gift_id |-> gift_id, new_email |-> new_email, gift |-> NoGift]

\* ReassignGiftView.post
reassign(d, q) ==
    CASE q.pc = "get" ->
            IF q.gift_id \notin DOMAIN d.gifts
                  \/ d.gifts[q.gift_id].sender # q.actor
                  \/ d.gifts[q.gift_id].status # "pending"
            THEN Done(d, q, "NotFound")
            ELSE IF d.gifts[q.gift_id].reassigned_to # NoAccount
            THEN Done(d, q, "AlreadyReassigned")
            ELSE Res(d, [q EXCEPT !.gift = d.gifts[q.gift_id], !.pc = "save"])
      [] q.pc = "save" ->
            Done([d EXCEPT !.gifts[q.gift_id] =
                     [q.gift EXCEPT !.recipient_email = q.new_email,
                                    !.recipient_user = AccountOf(q.new_email),
                                    !.reassigned_to = AccountOf(q.new_email)]],
                 q, "Reassigned")

\* (mutant of Expirable: the gift's status is not looked at)
ExpirableWhateverStatus(g, t) ==
    /\ Listings[g.property].property_type = "shortlet"
    /\ g.expires_at # Null /\ g.expires_at < t

\* Gift.objects.filter(property__property_type='shortlet',
\*                     expires_at__lt=now, status='pending')
Expirable(g, t) ==
    /\ Listings[g.property].property_type = "shortlet"
    /\ g.expires_at # Null /\ g.expires_at < t
    /\ g.status = "pending"

\* The query has no ORDER BY: order is the order the rows come back in.
NewExpireOldGifts(is_staff, order) ==
    [op |-> "expireOldGifts", pc |-> "select", outcome |-> "",
     is_staff |-> is_staff, order |-> order, queue |-> << >>,
     expired |-> 0, converted |-> 0]

\* ExpireOldGiftsView.post, behind permissions.IsAdminUser. User has no
\* attribute wallet_balance: reading it (line 303) raises AttributeError,
\* which ends the request with the rows saved so far.
expireOldGifts(d, q, t) ==
    CASE q.pc = "select" ->
            IF ~q.is_staff
            THEN Done(d, q, "PermissionDenied")
            ELSE LET Selected(i) == i \in DOMAIN d.gifts /\ Expirable(d.gifts[i], t)
                     ids == SelectSeq(q.order, Selected)
                     rows == [k \in DOMAIN ids |-> [id |-> ids[k], gift |-> d.gifts[ids[k]]]]
                 IN  IF rows = << >>
                     THEN Done(d, q, "Expired")
                     ELSE Res(d, [q EXCEPT !.queue = rows, !.pc = "expire"])
      [] q.pc = "expire" ->
            LET row == Head(q.queue)
                g == [row.gift EXCEPT !.status = "expired"]
                d2 == [d EXCEPT !.gifts[row.id] = g]
                q2 == [q EXCEPT !.expired = @ + 1]
            IN  IF g.reassigned_to = NoAccount /\ ~g.converted_to_credit
                THEN Res(d2, [q2 EXCEPT !.pc = "load_sender"])
                ELSE IF Tail(q.queue) = << >>
                THEN Done(d2, [q2 EXCEPT !.queue = << >>], "Expired")
                ELSE Res(d2, [q2 EXCEPT !.queue = Tail(q.queue)])
      [] q.pc = "load_sender" ->
            Done(d, q, "AttributeError")

\* ------------------------------------------------------- requests and steps
\* One step of request q against store d at time t: the code up to and
\* including its next store access.
Step(d, q, t) ==
    CASE q.op = "createBooking" -> createBooking(d, q)
      [] q.op = "markPaid" -> markPaid(d, q)
      [] q.op = "cancel" -> cancelBooking(d, q, t)
      [] q.op = "adminCancel" -> adminCancelBooking(d, q)
      [] q.op = "createInvestment" -> createInvestment(d, q, t)
      [] q.op = "topUp" -> topUp(d, q, t)
      [] q.op = "webhook" -> webhook(d, q, t)
      [] q.op = "verify" -> verifyPayment(d, q)
      [] q.op = "switchRole" -> switchRole(d, q)
      [] q.op = "assignAdmin" -> assignAdmin(d, q)
      [] q.op = "requestWithdrawal" -> requestWithdrawal(d, q)
      [] q.op = "approveWithdrawal" -> approveWithdrawal(d, q)
      [] q.op = "wallet" -> wallet(d, q)
      [] q.op = "createGift" -> createGift(d, q, t)
      [] q.op = "decide" -> decide(d, q)
      [] q.op = "reassign" -> reassign(d, q)
      [] q.op = "expireOldGifts" -> expireOldGifts(d, q, t)

\* A whole request, start to response, with no other request in between.
RECURSIVE Handle(_, _, _)
Handle(d, q, t) ==
    IF q.pc = "done" THEN Res(d, q)
    ELSE LET r == Step(d, q, t) IN Handle(r.d, r.q, t)

Commit(d) ==
    /\ users' = d.users
    /\ bookings' = d.bookings
    /\ commissions' = d.commissions
    /\ refunds' = d.refunds
    /\ investments' = d.investments
    /\ gifts' = d.gifts

\* The request is served alone.
Serve(q) == Commit(Handle(Db, q, now).d) /\ UNCHANGED <<now, reqs>>

\* What the request, served alone, answers.
Outcome(q) == Handle(Db, q, now).q.outcome

Init ==
    /\ now = 0
    /\ users = InitialUsers
    /\ bookings = << >>
    /\ commissions = << >>
    /\ refunds = << >>
    /\ investments = << >>
    /\ gifts = << >>
    /\ reqs = [r \in Slots |-> Idle]

Tick == now < MaxNow /\ now' = now + 1 /\ UNCHANGED <<store, reqs>>

BookingIds == 1..(Len(bookings) + 1)

CreateBooking(actor, property, start, end) ==
    Serve(NewCreateBooking(Db, actor, property, start, end))

MarkPaid(booking_id) == Serve(NewMarkPaid(booking_id))

CancelBooking(actor, booking_id) == Serve(NewCancel(actor, booking_id))

AdminCancelBooking(booking_id) == Serve(NewAdminCancel(booking_id))

\* The booking engine, one request at a time.
NextBook ==
    \/ Tick
    \/ \E a \in Accounts, p \in ShortletInputs, s \in Dates, e \in Dates :
           CreateBooking(a, p, s, e)
    \/ \E a \in Accounts, b \in BookingIds : CancelBooking(a, b)
    \/ \E b \in BookingIds : AdminCancelBooking(b)

SpecBook == Init /\ [][NextBook]_vars

\* ------------------------------------------------------ investment engine
InvestmentInputs == {"i1", "i2", "x1", "s1"}

Plans == {"full", "installment", "other"}

\* Amounts of a top-up request, in hundredths of the currency unit.
TopUpAmounts == {0, 100, 300, 400, 401}

\* References a payment notification can carry.
Refs ==
    {<<"Admin", 1>>, <<"Admin", 2>>, <<"TobiInvest", 1>>, <<"TobiInvest", 2>>,
     <<"Unknown", 0>>}

Statuses == {"successful", "failed"}

InvestmentIds == 1..(Len(investments) + 1)

CreateInvestment(actor, property, plan) ==
    Serve(NewCreateInvestment(Db, actor, property, plan))

TopUp(actor, investment_id, amount) ==
    Serve(NewTopUp(Db, actor, investment_id, amount))

Webhook(ref, status) == Serve(NewWebhook(ref, status))

NextInvest ==
    \/ Tick
    \/ \E a \in Accounts, p \in InvestmentInputs, plan \in Plans :
           CreateInvestment(a, p, plan)
    \/ \E a \in Accounts, i \in InvestmentIds, amount \in TopUpAmounts :
           TopUp(a, i, amount)
    \/ \E ref \in Refs, status \in Statuses : Webhook(ref, status)

SpecInvest == Init /\ [][NextInvest]_vars

\* ------------------------------------------------------ commission ledger
Actors == Accounts \cup Agents

CommissionIds == 1..(Len(commissions) + 1)

RequestWithdrawal(actor, commission_id) ==
    Serve(NewRequestWithdrawal(actor, commission_id))

ApproveWithdrawal(is_staff, commission_id) ==
    Serve(NewApproveWithdrawal(is_staff, commission_id))

Wallet(actor) == Serve(NewWallet(Db, actor))

\* ------------------------------------------------------------ gift engine
GiftInputs == {"s1", "i1", "x1"}

\* The account that makes gifts; the other one is a stranger to them.
GiftSenders == {"u1"}

\* Requests leave converted_to_credit to the column's default.
ConvertedInputs == {FALSE}

GiftIds == 1..(Len(gifts) + 1)

Actions == {"accept", "decline", "reassign"}

\* The orders in which the rows of the gift table can come back.
GiftOrders ==
    {o \in [1..MaxGifts -> 1..MaxGifts] : \A i, j \in 1..MaxGifts : o[i] = o[j] => i = j}

CreateGift(actor, recipient_email, property, converted_to_credit) ==
    /\ Len(gifts) < MaxGifts
    /\ Serve(NewCreateGift(actor, recipient_email, property, converted_to_credit))

Decide(actor, gift_id, action) == Serve(NewDecide(actor, gift_id, action))

Reassign(actor, gift_id, new_email) == Serve(NewReassign(actor, gift_id, new_email))

ExpireOldGifts(is_staff, order) == Serve(NewExpireOldGifts(is_staff, order))

\* A week goes by.
SkipWeek ==
    /\ now < MaxWeeks * GiftDays * TicksPerDay
    /\ now' = now + GiftDays * TicksPerDay
    /\ UNCHANGED <<store, reqs>>

\* The requests of the gift engine that can be made in a state.
GiftRequests ==
    {NewDecide(a, g, act) : a \in Accounts, g \in GiftIds, act \in Actions}
        \cup {NewReassign(a, g, e) : a \in Accounts, g \in GiftIds, e \in Emails}
        \cup {NewExpireOldGifts(f, o) : f \in BOOLEAN, o \in GiftOrders}
        \cup {NewCreateGift(a, e, p, c) :
                  a \in GiftSenders, e \in Emails, p \in GiftInputs,
                  c \in ConvertedInputs}

NextGift ==
    \/ SkipWeek
    \/ \E a \in GiftSenders, e \in Emails, p \in GiftInputs, c \in ConvertedInputs :
           CreateGift(a, e, p, c)
    \/ \E a \in Accounts, g \in GiftIds, act \in Actions : Decide(a, g, act)
    \/ \E a \in Accounts, g \in GiftIds, e \in Emails : Reassign(a, g, e)
    \/ \E f \in BOOLEAN, o \in GiftOrders : ExpireOldGifts(f, o)

SpecGift == Init /\ [][NextGift]_vars

\* ------------------------------------------------- interleaved requests
\* A request enters the lowest free slot; it keeps the slot, with its
\* outcome, once it is done.
Free(r) == reqs[r] = Idle /\ \A r2 \in Slots : r2 < r => reqs[r2] # Idle

Begin(r, q) == Free(r) /\ reqs' = [reqs EXCEPT ![r] = q] /\ UNCHANGED <<now, store>>

\* The request in slot r runs up to and including its next store access.
StepRequest(r) ==
    /\ reqs[r].pc \notin {"idle", "done"}
    /\ LET res == Step(Db, reqs[r], now)
       IN  Commit(res.d) /\ reqs' = [reqs EXCEPT ![r] = res.q]
    /\ UNCHANGED now

BeginCreateBooking(r, actor, property, start, end) ==
    Begin(r, NewCreateBooking(Db, actor, property, start, end))

\* Booking requests whose store accesses interleave.
NextConcBook ==
    \/ \E r \in Slots, a \in Accounts, p \in ShortletInputs, s \in Dates, e \in Dates :
           BeginCreateBooking(r, a, p, s, e)
    \/ \E r \in Slots : StepRequest(r)

SpecConcBook == Init /\ [][NextConcBook]_vars

BeginCreateInvestment(r, actor, property, plan) ==
    Begin(r, NewCreateInvestment(Db, actor, property, plan))

\* Investment requests whose store accesses interleave.
NextConcInvest ==
    \/ \E r \in Slots, a \in Accounts, p \in InvestmentInputs, plan \in Plans :
           BeginCreateInvestment(r, a, p, plan)
    \/ \E r \in Slots : StepRequest(r)

SpecConcInvest == Init /\ [][NextConcInvest]_vars

\* The store with the admin-entered bookings in it.
InitSeeded ==
    /\ now = 0
    /\ users = InitialUsers
    /\ bookings = SeedBookings
    /\ commissions = << >>
    /\ refunds = << >>
    /\ investments = << >>
    /\ gifts = << >>
    /\ reqs = [r \in Slots |-> Idle]

BeginMarkPaid(r, booking_id) == Begin(r, NewMarkPaid(booking_id))

\* Payment of bookings: markPaid requests whose store accesses interleave,
\* among cancellations and payment notifications served whole.
NextPaid ==
    \/ \E b \in BookingIds : MarkPaid(b)
    \/ \E a \in Accounts, b \in BookingIds : CancelBooking(a, b)
    \/ \E b \in BookingIds : AdminCancelBooking(b)
    \/ \E ref \in Refs, status \in Statuses : Webhook(ref, status)
    \/ \E r \in Slots, b \in BookingIds : BeginMarkPaid(r, b)
    \/ \E r \in Slots : StepRequest(r)

SpecPaid == InitSeeded /\ [][NextPaid]_vars

\* The admin-entered bookings, with a second one on listing s1.
LedgerBookings ==
    Append(SeedBookings,
           [user |-> "u2", property |-> "s1", start_date |-> 2, end_date |-> 4,
            total_price |-> 24, is_cancelled |-> FALSE, is_paid |-> FALSE,
            tx_ref |-> <<"Admin", 3>>])

InitLedger ==
    /\ now = 0
    /\ users = InitialUsers
    /\ bookings = LedgerBookings
    /\ commissions = << >>
    /\ refunds = << >>
    /\ investments = << >>
    /\ gifts = << >>
    /\ reqs = [r \in Slots |-> Idle]

ApiStatuses == {"success", "error"}

Verify(actor, has_id, api_status, status, ref) ==
    Serve(NewVerify(actor, has_id, api_status, status, ref))

\* Payment reconciliation: investments made and bookings marked paid, with
\* payments verified and notified; one request at a time.
NextReconcile ==
    \/ Tick
    \/ \E a \in Accounts, p \in InvestmentInputs, plan \in Plans :
           CreateInvestment(a, p, plan)
    \/ \E b \in BookingIds : MarkPaid(b)
    \/ \E ref \in Refs, status \in Statuses : Webhook(ref, status)
    \/ \E a \in Accounts, h \in BOOLEAN, s \in ApiStatuses, st \in Statuses, ref \in Refs :
           Verify(a, h, s, st, ref)

SpecReconcile == InitSeeded /\ [][NextReconcile]_vars

\* ------------------------------------------------------------------ roles
UserIds == Accounts \cup {"u9"}

SwitchRole(actor, new_role) == Serve(NewSwitchRole(Db, actor, new_role))

AssignAdmin(is_staff, user_id) == Serve(NewAssignAdmin(is_staff, user_id))

RoleRequests ==
    {NewSwitchRole(Db, a, role) : a \in Accounts, role \in Roles}
        \cup {NewAssignAdmin(f, u) : f \in BOOLEAN, u \in UserIds}

\* Accounts that change role, are promoted, invest by installments and are
\* verified by the notification that settles the investment.
NextRole ==
    \/ \E a \in Accounts, role \in Roles : SwitchRole(a, role)
    \/ \E f \in BOOLEAN, u \in UserIds : AssignAdmin(f, u)
    \/ \E a \in Accounts : CreateInvestment(a, "i1", "installment")
    \/ \E ref \in Refs : Webhook(ref, "successful")

SpecRole == Init /\ [][NextRole]_vars

\* Cancellation: admin-entered bookings, marked paid or not, and bookings
\* that account u1 pays from its credit, cancelled by their account or by an
\* admin as the days pass; one request at a time.
NextCancel ==
    \/ Tick
    \/ \E s \in Dates, e \in Dates : CreateBooking("u1", "s2", s, e)
    \/ \E b \in BookingIds : MarkPaid(b)
    \/ \E a \in Accounts, b \in BookingIds : CancelBooking(a, b)
    \/ \E b \in BookingIds : AdminCancelBooking(b)

SpecCancel == InitLedger /\ [][NextCancel]_vars

\* The requests of the commission ledger that can be made in a state.
LedgerRequests ==
    {NewMarkPaid(b) : b \in BookingIds}
        \cup {NewAdminCancel(b) : b \in BookingIds}
        \cup {NewRequestWithdrawal(a, c) : a \in Actors, c \in CommissionIds}
        \cup {NewApproveWithdrawal(f, c) : f \in BOOLEAN, c \in CommissionIds}
        \cup {NewWallet(Db, a) : a \in Actors}

\* Commissions from their creation to their withdrawal, one request at a
\* time.
NextLedger ==
    \/ \E b \in BookingIds : MarkPaid(b)
    \/ \E b \in BookingIds : AdminCancelBooking(b)
    \/ \E a \in Actors, c \in CommissionIds : RequestWithdrawal(a, c)
    \/ \E f \in BOOLEAN, c \in CommissionIds : ApproveWithdrawal(f, c)
    \/ \E a \in Actors : Wallet(a)

SpecLedger == InitLedger /\ [][NextLedger]_vars

BeginRequestWithdrawal(r, actor, commission_id) ==
    Begin(r, NewRequestWithdrawal(actor, commission_id))

BeginApproveWithdrawal(r, commission_id) ==
    Begin(r, NewApproveWithdrawal(TRUE, commission_id))

\* Withdrawals whose reads and writes interleave: requests by the agents and
\* approvals by staff, in the slots or served whole, after bookings were
\* marked paid.
NextConcLedger ==
    \/ \E b \in BookingIds : MarkPaid(b)
    \/ \E a \in Agents, c \in CommissionIds : RequestWithdrawal(a, c)
    \/ \E c \in CommissionIds : ApproveWithdrawal(TRUE, c)
    \/ \E r \in Slots, a \in Agents, c \in CommissionIds :
           BeginRequestWithdrawal(r, a, c)
    \/ \E r \in Slots, c \in CommissionIds : BeginApproveWithdrawal(r, c)
    \/ \E r \in Slots : StepRequest(r)

SpecConcLedger == InitSeeded /\ [][NextConcLedger]_vars

Quiet == \A r \in Slots : reqs[r] = Idle

BeginWebhook(r, ref, status) == Begin(r, NewWebhook(ref, status))

BeginTopUp(r, actor, investment_id, amount) ==
    Begin(r, NewTopUp(Db, actor, investment_id, amount))

\* Amounts of the top-ups that interleave: a part of the balance and the
\* whole of it.
SettleAmounts == {100, 400}

\* Settlement of an investment of u2 in listing i1: top-ups and payment
\* notifications whose reads and writes interleave.
NextConcSettle ==
    \/ \E plan \in {"full", "installment"} :
           Quiet /\ CreateInvestment("u2", "i1", plan)
    \/ \E r \in Slots, i \in InvestmentIds, amount \in SettleAmounts :
           BeginTopUp(r, "u2", i, amount)
    \/ \E r \in Slots : BeginWebhook(r, <<"TobiInvest", 1>>, "successful")
    \/ \E r \in Slots : StepRequest(r)

SpecConcSettle == Init /\ [][NextConcSettle]_vars

BeginCancel(r, actor, booking_id) == Begin(r, NewCancel(actor, booking_id))

BeginAdminCancel(r, booking_id) == Begin(r, NewAdminCancel(booking_id))

\* Cancellation of bookings that may have been paid: bookings are marked
\* paid while no request is in progress, then self-service and admin
\* cancellations interleave at their store accesses.
NextConcCancel ==
    \/ \E b \in BookingIds : Quiet /\ MarkPaid(b)
    \/ \E r \in Slots, a \in Accounts, b \in BookingIds : BeginCancel(r, a, b)
    \/ \E r \in Slots, b \in BookingIds : BeginAdminCancel(r, b)
    \/ \E r \in Slots : StepRequest(r)

SpecConcCancel == InitSeeded /\ [][NextConcCancel]_vars

\* Payment notifications whose store accesses interleave, after investments
\* were made.
NextHook ==
    \/ Tick
    \/ \E p \in InvestmentInputs, plan \in Plans :
           Quiet /\ CreateInvestment("u2", p, plan)
    \/ \E r \in Slots, ref \in Refs, status \in Statuses : BeginWebhook(r, ref, status)
    \/ \E r \in Slots : StepRequest(r)

SpecHook == InitSeeded /\ [][NextHook]_vars

\* ------------------------------------------------------------------ claims
Active(b) == ~b.is_cancelled

\* C1: under any sequence of createBooking, cancel and admin cancel, two
\* distinct non-cancelled bookings on the same listing never overlap as
\* half-open ranges [start, end).
C1_NoOverlap ==
    \A i \in DOMAIN bookings, j \in DOMAIN bookings :
        (i # j /\ Active(bookings[i]) /\ Active(bookings[j])
              /\ bookings[i].property = bookings[j].property)
        => ~(bookings[i].start_date < bookings[j].end_date
             /\ bookings[i].end_date > bookings[j].start_date)

\* Two active bookings on one listing, back to back: one ends on the day the
\* other starts.
C1_Witness ==
    \E i \in DOMAIN bookings, j \in DOMAIN bookings :
        /\ i # j /\ Active(bookings[i]) /\ Active(bookings[j])
        /\ bookings[i].property = bookings[j].property
        /\ bookings[i].end_date = bookings[j].start_date

CommissionsOf(booking_id) ==
    {i \in DOMAIN commissions : commissions[i].booking = booking_id}

\* C3: every booking whose is_paid flag is true has exactly one Commission,
\* whichever way it became paid.
C3_PaidHasCommission ==
    \A i \in DOMAIN bookings :
        bookings[i].is_paid => Cardinality(CommissionsOf(i)) = 1

\* C6: createBooking creates a booking only if the account's credit is at
\* least total = nights * price; on success the credit drops by exactly total
\* and the new booking is paid; a request the credit does not cover creates
\* nothing, leaves the credit alone, and answers InsufficientCredit when
\* nothing else is wrong with it.
C6_CreditDebit ==
    \A a \in Accounts, p \in ShortletInputs, s \in Dates, e \in Dates :
        LET r == Handle(Db, NewCreateBooking(Db, a, p, s, e), now)
            after == r.d
            total == (e - s) * Listings[p].price
            n == Len(bookings)
            clean == /\ Listings[p].is_approved
                     /\ e > s
                     /\ \A i \in DOMAIN bookings :
                           bookings[i].property = p =>
                              /\ bookings[i].is_cancelled
                              /\ <<bookings[i].start_date, bookings[i].end_date>>
                                    # <<s, e>>
        IN  /\ after.bookings # bookings =>
                  /\ users[a].shortlet_credit >= total
                  /\ after.users[a].shortlet_credit = users[a].shortlet_credit - total
                  /\ after.bookings = Append(bookings, after.bookings[n + 1])
                  /\ after.bookings[n + 1].is_paid
                  /\ after.bookings[n + 1].user = a
                  /\ after.bookings[n + 1].total_price = total
            /\ after.bookings = bookings => after.users = users
            /\ users[a].shortlet_credit < total => after = Db
            /\ (clean /\ users[a].shortlet_credit < total) =>
                  r.q.outcome = "InsufficientCredit"
            /\ (clean /\ users[a].shortlet_credit >= total) =>
                  after.bookings # bookings

\* A booking that took the whole of its account's credit: the balance is 0.
C6_Witness ==
    \E i \in DOMAIN bookings :
        /\ bookings[i].user = "u2"
        /\ bookings[i].total_price = InitialUsers["u2"].shortlet_credit
        /\ users["u2"].shortlet_credit = 0

\* C2: of two createBooking requests for the same listing with overlapping
\* ranges, however their overlap queries and inserts interleave, at most one
\* creates a booking.
C2_AtMostOneCreated ==
    \A r1 \in Slots, r2 \in Slots :
        (/\ r1 # r2
         /\ reqs[r1].op = "createBooking" /\ reqs[r2].op = "createBooking"
         /\ reqs[r1].property = reqs[r2].property
         /\ reqs[r1].start_date < reqs[r2].end_date
         /\ reqs[r1].end_date > reqs[r2].start_date)
        => ~(reqs[r1].outcome = "Created" /\ reqs[r2].outcome = "Created")

\* The same, for two requests with the identical range only.
C2_IdenticalRange ==
    \A r1 \in Slots, r2 \in Slots :
        (/\ r1 # r2
         /\ reqs[r1].op = "createBooking" /\ reqs[r2].op = "createBooking"
         /\ reqs[r1].property = reqs[r2].property
         /\ reqs[r1].start_date = reqs[r2].start_date
         /\ reqs[r1].end_date = reqs[r2].end_date)
        => ~(reqs[r1].outcome = "Created" /\ reqs[r2].outcome = "Created")

\* C4, as the spec states it: every Commission belongs to a paid booking, its
\* agent is the agent of the booking's listing, its amount is exactly 10% of
\* the booking's total_price, and no booking has two.
C4_ExactTenPercent ==
    /\ \A i \in DOMAIN commissions :
          LET b == bookings[commissions[i].booking]
          IN  /\ b.is_paid
              /\ commissions[i].agent = Listings[b.property].agent
              /\ 10 * commissions[i].amount = b.total_price
    /\ \A b \in DOMAIN bookings : Cardinality(CommissionsOf(b)) <= 1

\* C4, amended: the same, with the amount being 10% of total_price rounded to
\* the nearest hundredth (the precision of Commission.amount). It holds also
\* when two markPaid requests for one booking interleave.
C4_RoundedTenPercent ==
    /\ \A i \in DOMAIN commissions :
          LET b == bookings[commissions[i].booking]
          IN  /\ b.is_paid
              /\ commissions[i].agent = Listings[b.property].agent
              /\ 10 * commissions[i].amount - b.total_price \in (0 - 5)..5
    /\ \A b \in DOMAIN bookings : Cardinality(CommissionsOf(b)) <= 1

\* Two markPaid requests for one booking both passed the is_paid test; one
\* created the commission, the other was refused by the one-to-one constraint.
C4_Witness ==
    \E r1 \in Slots, r2 \in Slots :
        /\ reqs[r1].op = "markPaid" /\ reqs[r2].op = "markPaid"
        /\ reqs[r1].booking_id = reqs[r2].booking_id
        /\ reqs[r1].outcome = "Paid" /\ reqs[r2].outcome = "IntegrityError"
        /\ Cardinality(CommissionsOf(reqs[r1].booking_id)) = 1
        /\ bookings[reqs[r1].booking_id].is_paid

\* C5: once a successful charge.completed notification for a reference has
\* been applied, what is left of a duplicate delivery for the same reference
\* changes nothing in the store: no flag, balance or membership grant is
\* written again.
C5_DuplicateChangesNothing ==
    \A r \in Slots :
        (/\ reqs[r].op = "webhook"
         /\ reqs[r].pc # "done"
         /\ \E r2 \in Slots \ {r} :
               /\ reqs[r2].op = "webhook"
               /\ reqs[r2].ref = reqs[r].ref
               /\ reqs[r2].outcome \in {"BookingPaid", "InvestmentPaid"})
        => Step(Db, reqs[r], now).d = Db

C8_CompletedIffZero ==
    \A i \in DOMAIN investments :
        /\ investments[i].status \in {"active", "completed"}
        /\ investments[i].status = "completed" <=>
              investments[i].remaining_balance = 0

C9_Created(a, p, plan, exact) ==
    LET r == Handle(Db, NewCreateInvestment(Db, a, p, plan), now)
        n == Len(investments)
        inv == r.d.investments[n + 1]
        u == r.d.users[a]
        total == Listings[p].cost_price
    IN  r.q.outcome = "Created" =>
           /\ r.d.investments = Append(investments, inv)
           /\ inv.investor = a /\ inv.property = p /\ inv.payment_plan = plan
           /\ inv.total_price = total
           /\ u.membership_expires_at = now + MembershipDays * TicksPerDay
           /\ \A o \in Accounts \ {a} : r.d.users[o] = users[o]
           /\ plan = "full" =>
                 /\ inv.amount_paid = total /\ inv.remaining_balance = 0
                 /\ u.membership_tier = "Platinum"
                 /\ u.shortlet_credit = users[a].shortlet_credit
           /\ plan = "installment" =>
                 /\ IF exact
                    THEN /\ 100 * inv.amount_paid = 60 * total
                         /\ 100 * inv.remaining_balance = 40 * total
                    ELSE /\ 100 * inv.amount_paid - 60 * total \in (0 - 50)..50
                         /\ inv.remaining_balance = total - inv.amount_paid
                 /\ u.membership_tier = "Gold"
                 /\ u.shortlet_credit = 500000000

\* C9, as the spec states it: a successful createInvestment sets total_price
\* to the listing's cost_price; the full plan pays it whole and grants
\* Platinum for 365 days; the installment plan records exactly 60% paid and
\* exactly 40% remaining, grants Gold for 365 days and overwrites the credit
\* with 5,000,000.00.
C9_ExactSplit ==
    \A a \in Accounts, p \in InvestmentInputs, plan \in Plans :
        C9_Created(a, p, plan, TRUE)

\* C9, amended: the same, with amount_paid being 60% of total_price rounded
\* to the nearest hundredth and remaining_balance = total_price - amount_paid.
C9_RoundedSplit ==
    \A a \in Accounts, p \in InvestmentInputs, plan \in Plans :
        C9_Created(a, p, plan, FALSE)

\* An installment investment as created, in the listing whose 60% is not a
\* whole number of hundredths; the investor holds Gold and the credit.
C9_Witness ==
    \E i \in DOMAIN investments :
        /\ investments[i].property = "i2"
        /\ investments[i].payment_plan = "installment"
        /\ investments[i].amount_paid = 602
        /\ investments[i].remaining_balance = 401
        /\ users[investments[i].investor].membership_tier = "Gold"
        /\ users[investments[i].investor].shortlet_credit = 500000000

C11_TopUpRefusals ==
    \A a \in Accounts, i \in DOMAIN investments, amount \in TopUpAmounts :
        LET r == Handle(Db, NewTopUp(Db, a, i, amount), now)
            inv == investments[i]
            refused == r.q.outcome # "ToppedUp" /\ r.d = Db
        IN  /\ inv.investor # a => refused
            /\ amount <= 0 => refused /\ r.q.outcome = "InvalidAmount"
            /\ inv.status = "completed" => refused
            /\ amount > inv.remaining_balance => refused
            /\ (amount > 0 /\ inv.investor # a) => r.q.outcome = "NotFound"
            /\ (amount > 0 /\ inv.investor = a /\ inv.status = "completed") =>
                  r.q.outcome = "AlreadyCompleted"
            /\ (amount > 0 /\ inv.investor = a /\ inv.status # "completed"
                   /\ amount > inv.remaining_balance) =>
                  r.q.outcome = "AmountExceedsBalance"

\* A completed investment and an active one that owes less than a top-up a
\* request can ask for: each refusal has a request that meets it.
C11_Witness ==
    \E i \in DOMAIN investments, j \in DOMAIN investments :
        /\ investments[i].status = "completed"
        /\ investments[j].status = "active"
        /\ investments[j].remaining_balance \in 1..400
        /\ Outcome(NewTopUp(Db, "u2", i, 100)) = "AlreadyCompleted"
        /\ Outcome(NewTopUp(Db, "u2", j, 401)) = "AmountExceedsBalance"
        /\ Outcome(NewTopUp(Db, "u1", j, 100)) = "NotFound"
        /\ Outcome(NewTopUp(Db, "u2", j, 0)) = "InvalidAmount"

\* C12: there is at most one Investment per (investor, listing) pair, also
\* when two createInvestment requests for one pair interleave.
C12_OnePerPair ==
    \A i \in DOMAIN investments, j \in DOMAIN investments :
        (investments[i].investor = investments[j].investor
            /\ investments[i].property = investments[j].property) => i = j

\* Two requests of one investor for one listing have both run: one created
\* the investment, the INSERT of the other was refused.
C12_Witness ==
    \E r1 \in Slots, r2 \in Slots :
        /\ reqs[r1].op = "createInvestment" /\ reqs[r2].op = "createInvestment"
        /\ reqs[r1].actor = reqs[r2].actor
        /\ reqs[r1].property = reqs[r2].property
        /\ reqs[r1].outcome = "Created" /\ reqs[r2].outcome = "IntegrityError"
        /\ Len(investments) = 1

\* C13: a createInvestment request that fails, for whatever reason, leaves
\* the store as it was: no Investment is created and the investor's
\* membership_tier, membership_expires_at and shortlet_credit keep their
\* values.
C13_FailureChangesNothing ==
    \A a \in Accounts, p \in InvestmentInputs, plan \in Plans :
        LET r == Handle(Db, NewCreateInvestment(Db, a, p, plan), now)
        IN  r.q.outcome # "Created" => r.d = Db

\* C14: a Commission moves only along accrued -> withdrawal_requested ->
\* withdrawn. Whatever request is served, a commission either stays as it is,
\* or becomes requested by a requestWithdrawal of its own agent while neither
\* requested nor withdrawn, or becomes withdrawn and no longer requested by
\* an approveWithdrawal while requested and not withdrawn; a withdrawn
\* commission never changes.
C14_Lifecycle ==
    \A q \in LedgerRequests, c \in DOMAIN commissions :
        LET r == Handle(Db, q, now)
            old == commissions[c]
            new == r.d.commissions[c]
        IN  /\ ~(old.withdrawal_requested /\ old.is_withdrawn)
            /\ \/ new = old
               \/ /\ q.op = "requestWithdrawal" /\ q.commission_id = c
                  /\ r.q.outcome = "Requested"
                  /\ q.actor = old.agent
                  /\ ~old.withdrawal_requested /\ ~old.is_withdrawn
                  /\ new = [old EXCEPT !.withdrawal_requested = TRUE]
               \/ /\ q.op = "approveWithdrawal" /\ q.commission_id = c
                  /\ r.q.outcome = "Approved"
                  /\ old.withdrawal_requested /\ ~old.is_withdrawn
                  /\ new = [old EXCEPT !.is_withdrawn = TRUE,
                                       !.withdrawal_requested = FALSE]
            /\ (q.op \in {"requestWithdrawal", "approveWithdrawal"}
                   /\ q.commission_id = c
                   /\ r.q.outcome \in {"Requested", "Approved"}) => new # old

\* A commission that went the whole way, beside one that is requested and
\* one that is accrued.
C14_Witness ==
    \E c1 \in DOMAIN commissions, c2 \in DOMAIN commissions,
       c3 \in DOMAIN commissions :
        /\ commissions[c1].is_withdrawn /\ ~commissions[c1].withdrawal_requested
        /\ commissions[c2].withdrawal_requested /\ ~commissions[c2].is_withdrawn
        /\ ~commissions[c3].withdrawal_requested /\ ~commissions[c3].is_withdrawn

\* The commissions of an agent that are not withdrawn.
OpenCommissions(cs, agent) ==
    {i \in DOMAIN cs : cs[i].agent = agent /\ cs[i].is_withdrawn = FALSE}

RECURSIVE SumOver(_, _)
SumOver(cs, S) ==
    IF S = {} THEN 0
    ELSE LET i == CHOOSE i \in S : TRUE
         IN  cs[i].amount + SumOver(cs, S \ {i})

WalletBalance(d, agent) == Handle(d, NewWallet(d, agent), now).q.wallet_balance

\* C15: the wallet balance reported for an agent is the sum of the amounts of
\* the agent's commissions that are not withdrawn, requested or not;
\* requestWithdrawal leaves it as it is, and a successful approveWithdrawal
\* lowers it by exactly the commission's amount.
C15_WalletBalance ==
    \A agent \in Agents :
        /\ Outcome(NewWallet(Db, agent)) = "Wallet"
        /\ WalletBalance(Db, agent) =
              SumOver(commissions, OpenCommissions(commissions, agent))
        /\ \A a \in Actors, c \in CommissionIds :
              WalletBalance(Handle(Db, NewRequestWithdrawal(a, c), now).d, agent)
                 = WalletBalance(Db, agent)
        /\ \A f \in BOOLEAN, c \in CommissionIds :
              LET r == Handle(Db, NewApproveWithdrawal(f, c), now)
              IN  WalletBalance(r.d, agent) =
                     IF r.q.outcome = "Approved" /\ commissions[c].agent = agent
                     THEN WalletBalance(Db, agent) - commissions[c].amount
                     ELSE WalletBalance(Db, agent)

\* Agent a1 has a commission requested, one accrued and none withdrawn, and
\* agent a2 has one withdrawn: a1's wallet holds both amounts, a2's nothing.
C15_Witness ==
    /\ \E c1 \in DOMAIN commissions, c2 \in DOMAIN commissions :
          /\ c1 # c2
          /\ commissions[c1].agent = "a1" /\ commissions[c2].agent = "a1"
          /\ commissions[c1].withdrawal_requested /\ ~commissions[c1].is_withdrawn
          /\ ~commissions[c2].withdrawal_requested /\ ~commissions[c2].is_withdrawn
          /\ WalletBalance(Db, "a1") = commissions[c1].amount + commissions[c2].amount
          /\ commissions[c1].amount # commissions[c2].amount
    /\ \E c3 \in DOMAIN commissions :
          /\ commissions[c3].agent = "a2" /\ commissions[c3].is_withdrawn
          /\ commissions[c3].amount > 0
          /\ WalletBalance(Db, "a2") = 0

\* C16: whatever request of the gift engine is served, a gift's status stays
\* as it is or goes from pending to accepted, declined or expired; a status
\* other than pending never changes.
C16_StatusOnlyLeavesPending ==
    \A q \in GiftRequests, g \in DOMAIN gifts :
        LET new == Handle(Db, q, now).d.gifts[g]
        IN  \/ new.status = gifts[g].status
            \/ /\ gifts[g].status = "pending"
               /\ new.status \in {"accepted", "declined", "expired"}

\* One gift was expired by the job and another one was accepted.
C16_Witness ==
    \E g1 \in DOMAIN gifts, g2 \in DOMAIN gifts :
        gifts[g1].status = "expired" /\ gifts[g2].status = "accepted"

\* C17: a gift is reassigned at most once: after a successful reassign, to
\* an address of an account or not, every further reassign of the gift fails,
\* with AlreadyReassigned when its sender asks, and changes nothing; and a
\* reassign succeeds only for a pending gift and its sender.
C17_ReassignedOnce ==
    \A a \in Accounts, g \in DOMAIN gifts, e \in Emails :
        LET r1 == Handle(Db, NewReassign(a, g, e), now)
        IN  r1.q.outcome = "Reassigned" =>
               /\ gifts[g].status = "pending" /\ gifts[g].sender = a
               /\ \A a2 \in Accounts, e2 \in Emails :
                     LET r2 == Handle(r1.d, NewReassign(a2, g, e2), now)
                     IN  /\ r2.d = r1.d
                         /\ a2 = a => r2.q.outcome = "AlreadyReassigned"

\* C18: decide changes a gift only when it is pending, the acting account is
\* its recipient_user and the action is accept or decline, and then only its
\* status; in every other case it fails and changes nothing. After a
\* reassign the recipient that can decide is the new one, not the old one.
C18_DecideOnlyByRecipient ==
    \A a \in Accounts, g \in DOMAIN gifts, act \in Actions :
        LET r == Handle(Db, NewDecide(a, g, act), now)
            may == /\ gifts[g].status = "pending"
                   /\ gifts[g].recipient_user = a
                   /\ act \in {"accept", "decline"}
        IN  /\ may =>
                  /\ r.q.outcome = "Decided"
                  /\ r.d = [Db EXCEPT !.gifts[g].status =
                               IF act = "accept" THEN "accepted" ELSE "declined"]
            /\ ~may => r.q.outcome # "Decided" /\ r.d = Db
            /\ \A s \in Accounts, e \in Emails :
                  LET r1 == Handle(Db, NewReassign(s, g, e), now)
                      r2 == Handle(r1.d, NewDecide(a, g, act), now)
                  IN  (r1.q.outcome = "Reassigned" /\ act \in {"accept", "decline"})
                         => (r2.q.outcome = "Decided" <=> a = AccountOf(e))

\* A gift that was reassigned to account u2 and then accepted, which only u2
\* can have done.
C18_Witness ==
    \E g \in DOMAIN gifts :
        gifts[g].reassigned_to = "u2" /\ gifts[g].status = "accepted"

\* The amount expireOldGifts owes an account: the prices of the listings of
\* the account's gifts in S.
RECURSIVE PricesOf(_, _)
PricesOf(S, sender) ==
    IF S = {} THEN 0
    ELSE LET g == CHOOSE g \in S : TRUE
         IN  (IF gifts[g].sender = sender
              THEN Listings[gifts[g].property].price ELSE 0)
                 + PricesOf(S \ {g}, sender)

\* C19: one run of expireOldGifts expires every pending shortlet gift whose
\* expiry is before now and touches no other gift; each of them that was
\* never reassigned and is not converted is marked converted_to_credit and
\* its listing's price is added to the sender's credit; a reassigned one is
\* expired without credit; the counts returned are those of the gifts
\* expired and converted.
C19_ExpireRun ==
    \A o \in GiftOrders :
        LET r == Handle(Db, NewExpireOldGifts(TRUE, o), now)
            due == {g \in DOMAIN gifts :
                       /\ gifts[g].status = "pending"
                       /\ Listings[gifts[g].property].property_type = "shortlet"
                       /\ gifts[g].expires_at # Null /\ gifts[g].expires_at < now}
            owed == {g \in due : gifts[g].reassigned_to = NoAccount
                                    /\ ~gifts[g].converted_to_credit}
        IN  /\ r.q.outcome = "Expired"
            /\ r.q.expired = Cardinality(due)
            /\ r.q.converted = Cardinality(owed)
            /\ \A g \in DOMAIN gifts :
                  r.d.gifts[g] =
                     IF g \in owed
                     THEN [gifts[g] EXCEPT !.status = "expired",
                                           !.converted_to_credit = TRUE]
                     ELSE IF g \in due
                     THEN [gifts[g] EXCEPT !.status = "expired"]
                     ELSE gifts[g]
            /\ \A a \in Accounts :
                  r.d.users[a].shortlet_credit =
                     users[a].shortlet_credit + PricesOf(owed, a)

\* C20: a second run of expireOldGifts right after a first one changes no
\* gift and no account; and a gift marked converted_to_credit is expired.
C20_SecondRunChangesNothing ==
    /\ \A o1 \in GiftOrders, o2 \in GiftOrders :
          LET d1 == Handle(Db, NewExpireOldGifts(TRUE, o1), now).d
          IN  Handle(d1, NewExpireOldGifts(TRUE, o2), now).d = d1
    /\ \A g \in DOMAIN gifts :
          gifts[g].converted_to_credit => gifts[g].status = "expired"

\* C21: createGift fails, changing nothing, when the listing is not
\* approved; otherwise the gift it creates has expires_at = now + 7 days when
\* the listing is a shortlet and none when it is not. A gift for a listing
\* that is not a shortlet has no expiry, is not expired, and no run of
\* expireOldGifts changes it.
C21_ExpiryOnlyForShortlets ==
    /\ \A a \in GiftSenders, e \in Emails, p \in GiftInputs, c \in ConvertedInputs :
          LET r == Handle(Db, NewCreateGift(a, e, p, c), now)
              n == Len(gifts) + 1
          IN  IF ~Listings[p].is_approved
              THEN r.q.outcome = "NotApproved" /\ r.d = Db
              ELSE /\ r.q.outcome = "Created"
                   /\ Len(r.d.gifts) = n
                   /\ r.d.gifts[n].property = p
                   /\ r.d.gifts[n].expires_at =
                         IF Listings[p].property_type = "shortlet"
                         THEN now + 7 * TicksPerDay ELSE Null
    /\ \A g \in DOMAIN gifts :
          /\ Listings[gifts[g].property].is_approved
          /\ Listings[gifts[g].property].property_type # "shortlet" =>
                /\ gifts[g].expires_at = Null
                /\ gifts[g].status # "expired"
                /\ \A f \in BOOLEAN, o \in GiftOrders :
                      Handle(Db, NewExpireOldGifts(f, o), now).d.gifts[g]
                         = gifts[g]

\* Two weeks after its creation a gift for the investment listing is still
\* pending, next to a shortlet gift that a run of the job has expired.
C21_Witness ==
    /\ now >= 2 * GiftDays * TicksPerDay
    /\ \E g1 \in DOMAIN gifts, g2 \in DOMAIN gifts :
          /\ gifts[g1].property = "i1" /\ gifts[g1].status = "pending"
          /\ gifts[g2].property = "s1" /\ gifts[g2].status = "expired"

\* C22: the account's own cancel succeeds exactly when the booking exists,
\* is the account's, is not cancelled and starts after today; on a booking of
\* the account that is not cancelled and has started it fails with
\* BookingStarted. Admin cancel succeeds exactly when the booking exists and
\* is not cancelled, whatever its start. A cancel that fails changes nothing.
C22_CancelGuards ==
    \A b \in BookingIds :
        /\ \A a \in Accounts :
              LET r == Handle(Db, NewCancel(a, b), now)
                  mine == b \in DOMAIN bookings /\ bookings[b].user = a
                  open == mine /\ ~bookings[b].is_cancelled
                  ok == open /\ Today(now) < bookings[b].start_date
              IN  /\ r.q.outcome = "Cancelled" <=> ok
                  /\ ok => r.d.bookings[b].is_cancelled
                  /\ ~ok => r.d = Db
                  /\ (open /\ ~ok) => r.q.outcome = "BookingStarted"
                  /\ (mine /\ ~open) => r.q.outcome = "AlreadyCancelled"
        /\ LET r == Handle(Db, NewAdminCancel(b), now)
               ok == b \in DOMAIN bookings /\ ~bookings[b].is_cancelled
           IN  /\ r.q.outcome = "Cancelled" <=> ok
               /\ ok => r.d.bookings[b].is_cancelled
               /\ ~ok => r.d = Db

\* A booking that was cancelled, next to one that has started and is not
\* cancelled: its account's cancel is refused, the admin's is not.
C22_Witness ==
    \E b1 \in DOMAIN bookings, b2 \in DOMAIN bookings :
        /\ bookings[b1].is_cancelled
        /\ ~bookings[b2].is_cancelled
        /\ bookings[b2].start_date <= Today(now)

\* The entries of the refund log made for booking b.
RefundsOf(rs, b) == {i \in DOMAIN rs : rs[i].booking = b}

\* C23: a cancel that succeeds, by the account or by an admin, appends one
\* entry to the refund log when the booking was paid, for the booking's
\* account and its whole total_price, and appends none when it was not paid;
\* no booking ever has more than one entry.
C23_RefundIffPaid ==
    /\ \A b \in DOMAIN bookings :
          /\ Cardinality(RefundsOf(refunds, b)) <= 1
          /\ \A q \in {NewCancel(a, b) : a \in Accounts} \cup {NewAdminCancel(b)} :
                LET r == Handle(Db, q, now)
                IN  r.q.outcome = "Cancelled" =>
                       IF bookings[b].is_paid
                       THEN /\ Len(r.d.refunds) = Len(refunds) + 1
                            /\ SubSeq(r.d.refunds, 1, Len(refunds)) = refunds
                            /\ r.d.refunds[Len(refunds) + 1].user = bookings[b].user
                            /\ r.d.refunds[Len(refunds) + 1].amount
                                  = bookings[b].total_price
                            /\ r.d.refunds[Len(refunds) + 1].booking = b
                       ELSE r.d.refunds = refunds

\* A paid booking was cancelled with a refund entry and an unpaid one was
\* cancelled without.
C23_Witness ==
    \E b1 \in DOMAIN bookings, b2 \in DOMAIN bookings :
        /\ bookings[b1].is_cancelled /\ RefundsOf(refunds, b1) # {}
        /\ bookings[b2].is_cancelled /\ ~bookings[b2].is_paid
        /\ RefundsOf(refunds, b2) = {}

\* C24: a notification of a successful payment whose reference is that of
\* an investment with amount_paid < total_price leaves the investment with
\* amount_paid = total_price, remaining_balance = 0 and status completed, and
\* its investor with membership Platinum expiring 365 days from now and
\* is_verified true; nothing else changes.
C24_WebhookSettlesInvestment ==
    \A ref \in Refs, i \in DOMAIN investments :
        LET inv == investments[i]
            r == Handle(Db, NewWebhook(ref, "successful"), now)
        IN  (inv.tx_ref = ref /\ inv.amount_paid < inv.total_price) =>
               /\ r.q.outcome = "InvestmentPaid"
               /\ r.d.investments =
                     [investments EXCEPT ![i] =
                         [inv EXCEPT !.amount_paid = inv.total_price,
                                     !.remaining_balance = 0,
                                     !.status = "completed"]]
               /\ r.d.users =
                     [users EXCEPT ![inv.investor] =
                         [@ EXCEPT !.membership_tier = "Platinum",
                                   !.membership_expires_at =
                                       now + 365 * TicksPerDay,
                                   !.is_verified = TRUE]]
               /\ r.d.bookings = bookings /\ r.d.commissions = commissions
               /\ r.d.refunds = refunds /\ r.d.gifts = gifts

\* An installment investment that a notification has settled: completed, the
\* investor verified, with the credit of the installment plan still there.
C24_Witness ==
    \E i \in DOMAIN investments :
        /\ investments[i].payment_plan = "installment"
        /\ investments[i].status = "completed"
        /\ users[investments[i].investor].is_verified
        /\ users[investments[i].investor].shortlet_credit = InstallmentCredit

\* C25: verifying a successful payment leaves the store as the notification
\* of that payment leaves it, for every reference and every state.
C25_VerifySameAsWebhook ==
    \A a \in Accounts, ref \in Refs :
        Handle(Db, NewVerify(a, TRUE, "success", "successful", ref), now).d
           = Handle(Db, NewWebhook(ref, "successful"), now).d

\* C26: a notification of a successful payment is answered with NoMatch
\* exactly when no booking and no investment carries its reference, and then
\* changes nothing; for the reference of a paid booking or of a fully paid
\* investment it changes nothing either and is not answered with NoMatch.
C26_NotFoundExactly ==
    \A ref \in Refs :
        LET r == Handle(Db, NewWebhook(ref, "successful"), now)
            bs == WithRef(bookings, ref)
            is == WithRef(investments, ref)
        IN  /\ r.q.outcome = "NoMatch" <=> (bs = {} /\ is = {})
            /\ r.q.outcome = "NoMatch" => r.d = Db
            /\ (\E b \in bs : bookings[b].is_paid) => r.d = Db
            /\ (\E i \in is : investments[i].amount_paid
                                 = investments[i].total_price) => r.d = Db

\* C27: for an approved shortlet listing, a range with end > start and an
\* account whose credit covers it, createBooking is refused as a clash of
\* dates when a non-cancelled booking on the listing has start < range.end
\* and end > range.start, and is accepted when there is none; a range that
\* touches an existing booking at one end only is accepted.
C27_ConflictIffOverlap ==
    \A a \in Accounts, p \in ShortletInputs, s \in Dates, e \in Dates :
        LET r == Handle(Db, NewCreateBooking(Db, a, p, s, e), now)
            clash == \E i \in DOMAIN bookings :
                        /\ bookings[i].property = p
                        /\ ~bookings[i].is_cancelled
                        /\ bookings[i].start_date < e
                        /\ bookings[i].end_date > s
        IN  (/\ Listings[p].is_approved
             /\ Listings[p].property_type = "shortlet"
             /\ e > s
             /\ users[a].shortlet_credit >= (e - s) * Listings[p].price)
            => /\ clash => r.q.outcome \in {"DateConflict", "NotUnique"}
               /\ ~clash => r.q.outcome = "Created"

\* C28: every booking has end_date > start_date and total_price = the number
\* of its nights times the listing's price per night; createBooking for a
\* range with end <= start creates nothing and changes nothing, and answers
\* InvalidRange when the listing is an approved shortlet with no clash of
\* dates.
C28_RangeAndPrice ==
    /\ \A i \in DOMAIN bookings :
          /\ bookings[i].end_date > bookings[i].start_date
          /\ bookings[i].total_price =
                (bookings[i].end_date - bookings[i].start_date)
                   * Listings[bookings[i].property].price
    /\ \A a \in Accounts, p \in ShortletInputs, s \in Dates, e \in Dates :
          LET r == Handle(Db, NewCreateBooking(Db, a, p, s, e), now)
              clash == \E i \in DOMAIN bookings :
                          /\ bookings[i].property = p
                          /\ ~bookings[i].is_cancelled
                          /\ bookings[i].start_date < e
                          /\ bookings[i].end_date > s
          IN  e <= s =>
                 /\ r.q.outcome # "Created"
                 /\ r.d = Db
                 /\ (/\ Listings[p].is_approved
                     /\ Listings[p].property_type = "shortlet"
                     /\ ~clash) => r.q.outcome = "InvalidRange"

\* A booking of two nights, charged twice the price of a night.
C28_Witness ==
    \E i \in DOMAIN bookings :
        /\ bookings[i].end_date - bookings[i].start_date = 2
        /\ bookings[i].total_price = 2 * Listings[bookings[i].property].price

\* C29: markPaid on a booking that is paid changes nothing; markPaid twice
\* in a row on any booking leaves the store as markPaid once leaves it, the
\* second call answering that the booking is already paid.
C29_MarkPaidIdempotent ==
    \A b \in DOMAIN bookings :
        LET r1 == Handle(Db, NewMarkPaid(b), now)
            r2 == Handle(r1.d, NewMarkPaid(b), now)
        IN  /\ bookings[b].is_paid => r1.d = Db /\ r1.q.outcome = "AlreadyPaid"
            /\ r2.d = r1.d
            /\ r2.q.outcome = "AlreadyPaid"

\* A booking that markPaid paid, with its commission, next to one that a
\* payment notification paid, without one, and that markPaid leaves so.
C29_Witness ==
    \E b1 \in DOMAIN bookings, b2 \in DOMAIN bookings :
        /\ bookings[b1].is_paid /\ CommissionsOf(b1) # {}
        /\ bookings[b2].is_paid /\ CommissionsOf(b2) = {}

\* C30: whenever a request changes an account's role, by the account's own
\* switch or by an admin's promotion, the account's is_verified is false
\* afterwards and a was_verified_as_agent or was_verified_as_investor that
\* was true is still true; a switch to the role the account has changes
\* nothing.
C30_RoleChangeResetsVerified ==
    \A q \in RoleRequests :
        LET r == Handle(Db, q, now)
        IN  /\ \A u \in Accounts :
                  r.d.users[u].role # users[u].role =>
                     /\ ~r.d.users[u].is_verified
                     /\ users[u].was_verified_as_agent
                           => r.d.users[u].was_verified_as_agent
                     /\ users[u].was_verified_as_investor
                           => r.d.users[u].was_verified_as_investor
            /\ (q.op = "switchRole" /\ q.new_role = users[q.actor].role)
                  => r.d = Db

\* C31: no gift is expired without either a reassignment target or the mark
\* converted_to_credit, in any state of the store: between the writes of a
\* run of expireOldGifts and after a run that stopped with an error too.
C31_ExpiredIsConverted ==
    \A g \in DOMAIN gifts :
        gifts[g].status = "expired" =>
            (gifts[g].reassigned_to # NoAccount \/ gifts[g].converted_to_credit)

\* C32: with requestWithdrawal and approveWithdrawal interleaved at their
\* reads and whole-row writes, no step of a request takes a commission that
\* is withdrawn back to is_withdrawn = false.
C32_WithdrawnStaysWithdrawn ==
    \A r \in Slots :
        reqs[r].pc \notin {"idle", "done"} =>
            LET d == Step(Db, reqs[r], now).d
            IN  \A c \in DOMAIN commissions :
                    commissions[c].is_withdrawn => d.commissions[c].is_withdrawn

\* The sum of total_price over the bookings with ids in S.
RECURSIVE SumTotals(_)
SumTotals(S) ==
    IF S = {} THEN 0
    ELSE LET i == CHOOSE i \in S : TRUE
         IN  bookings[i].total_price + SumTotals(S \ {i})

BookingsOf(a) == {i \in DOMAIN bookings : bookings[i].user = a}

\* C33: whenever no createBooking request is under way, however the requests
\* made so far interleaved and whatever they answered, each account has been
\* debited exactly the sum of total_price of the bookings created for it.
C33_DebitsMatchBookings ==
    (\A r \in Slots : reqs[r].pc \in {"idle", "done"}) =>
        \A a \in Accounts :
            InitialUsers[a].shortlet_credit - users[a].shortlet_credit
               = SumTotals(BookingsOf(a))

\* C34: on a listing that has a cancelled booking, createBooking for any
\* range, that of the cancelled booking included, is accepted when no
\* non-cancelled booking overlaps the range, the listing is an approved
\* shortlet, end > start and the account's credit covers the price.
C34_CancelledNeverBlocks ==
    \A c \in DOMAIN bookings :
        bookings[c].is_cancelled =>
            \A a \in Accounts, s \in Dates, e \in Dates :
                LET p == bookings[c].property
                    r == Handle(Db, NewCreateBooking(Db, a, p, s, e), now)
                IN  (/\ Listings[p].is_approved
                     /\ Listings[p].property_type = "shortlet"
                     /\ e > s
                     /\ CreditCovers(users[a].shortlet_credit,
                                     (e - s) * Listings[p].price)
                     /\ \A i \in DOMAIN bookings :
                           (bookings[i].property = p /\ ~bookings[i].is_cancelled)
                              => ~(bookings[i].start_date < e
                                   /\ bookings[i].end_date > s))
                    => r.q.outcome = "Created"

\* C35: a cancel that succeeds, by the account or by an admin, sets the
\* booking's is_cancelled and appends at most one entry to the refund log,
\* and changes nothing else: not the booking's is_paid, not any account's
\* shortlet_credit, not any commission; each agent's wallet shows the same
\* balance after it as before.
C35_CancelTouchesOnlyTheFlag ==
    \A b \in DOMAIN bookings :
        \A q \in {NewCancel(a, b) : a \in Accounts} \cup {NewAdminCancel(b)} :
            LET r == Handle(Db, q, now)
            IN  r.q.outcome = "Cancelled" =>
                   /\ r.d.bookings = [bookings EXCEPT ![b].is_cancelled = TRUE]
                   /\ r.d.users = users
                   /\ r.d.commissions = commissions
                   /\ r.d.investments = investments /\ r.d.gifts = gifts
                   /\ Len(r.d.refunds) <= Len(refunds) + 1
                   /\ SubSeq(r.d.refunds, 1, Len(refunds)) = refunds
                   /\ \A g \in Agents :
                         Handle(r.d, NewWallet(r.d, g), now).q.wallet_balance
                            = Handle(Db, NewWallet(Db, g), now).q.wallet_balance

\* A cancelled booking whose commission is still in its agent's wallet, and
\* a cancelled booking that account u1 paid from its credit, with the credit
\* still down by its price.
C35_Witness ==
    \E b1 \in DOMAIN bookings, b2 \in DOMAIN bookings :
        /\ bookings[b1].is_cancelled
        /\ \E c \in CommissionsOf(b1) :
              /\ ~commissions[c].is_withdrawn
              /\ Handle(Db, NewWallet(Db, commissions[c].agent), now).q.wallet_balance
                    >= commissions[c].amount
        /\ bookings[b2].is_cancelled /\ bookings[b2].is_paid
        /\ bookings[b2].tx_ref[1] = "TobiTx"
        /\ users["u1"].shortlet_credit
              = InitialUsers["u1"].shortlet_credit - bookings[b2].total_price

\* The requests that can complete an investment.
CompletingRequests ==
    {NewTopUp(Db, a, i, amount) :
        a \in Accounts, i \in InvestmentIds, amount \in TopUpAmounts}
        \cup {NewWebhook(ref, "successful") : ref \in Refs}

\* C36: whenever a request, a top-up or a payment notification, takes an
\* installment investment to completed, the investor's shortlet_credit is
\* zero right after it.
C36_CompletionZeroesCredit ==
    \A q \in CompletingRequests, i \in DOMAIN investments :
        LET r == Handle(Db, q, now)
        IN  (/\ investments[i].payment_plan = "installment"
             /\ investments[i].status # "completed"
             /\ r.d.investments[i].status = "completed")
            => r.d.users[investments[i].investor].shortlet_credit = 0

\* C37: no createInvestment, topUp or payment notification takes an account
\* whose membership_tier is Platinum to another tier.
C37_PlatinumStays ==
    \A q \in CompletingRequests
             \cup {NewCreateInvestment(Db, a, p, plan) :
                      a \in Accounts, p \in InvestmentInputs, plan \in Plans} :
        \A u \in Accounts :
            users[u].membership_tier = "Platinum" =>
                Handle(Db, q, now).d.users[u].membership_tier = "Platinum"

\* C38: with top-ups and payment notifications interleaved at their reads
\* and whole-row writes, no step of a request changes the amount_paid, the
\* remaining_balance or the status of an investment whose remaining_balance
\* is 0, and no step lowers an investment's amount_paid.
C38_FullyPaidIsFinal ==
    \A r \in Slots :
        reqs[r].pc \notin {"idle", "done"} =>
            LET d == Step(Db, reqs[r], now).d
            IN  \A i \in DOMAIN investments :
                    /\ d.investments[i].amount_paid >= investments[i].amount_paid
                    /\ investments[i].remaining_balance = 0 =>
                          /\ d.investments[i].amount_paid
                                = investments[i].amount_paid
                          /\ d.investments[i].remaining_balance = 0
                          /\ d.investments[i].status = investments[i].status

\* C39: decide does not look at expires_at: the recipient's accept or decline
\* of a shortlet gift that is pending after its expiry time succeeds and
\* gives it the status accepted or declined; and no request of the gift
\* engine served afterwards, a run of expireOldGifts included, changes the
\* status or the mark converted_to_credit of a gift that is accepted or
\* declined.
C39_LateDecisionStands ==
    \A g \in DOMAIN gifts :
        /\ (/\ gifts[g].status = "pending"
            /\ Listings[gifts[g].property].property_type = "shortlet"
            /\ gifts[g].expires_at # Null /\ gifts[g].expires_at < now
            /\ gifts[g].recipient_user # NoAccount) =>
               \A act \in {"accept", "decline"} :
                   LET r1 == Handle(Db, NewDecide(gifts[g].recipient_user, g, act), now)
                   IN  /\ r1.q.outcome = "Decided"
                       /\ r1.d.gifts[g].status =
                             (IF act = "accept" THEN "accepted" ELSE "declined")
                       /\ \A f \in BOOLEAN, o \in GiftOrders :
                             LET r2 == Handle(r1.d, NewExpireOldGifts(f, o), now)
                             IN  r2.d.gifts[g] = r1.d.gifts[g]
        /\ gifts[g].status \in {"accepted", "declined"} =>
               \A q \in GiftRequests :
                   LET new == Handle(Db, q, now).d.gifts[g]
                   IN  /\ new.status = gifts[g].status
                       /\ new.converted_to_credit = gifts[g].converted_to_credit

\* A shortlet gift was accepted or declined after its expiry time had
\* passed, and a run of expireOldGifts has since expired another gift.
C39_Witness ==
    \E g \in DOMAIN gifts, g2 \in DOMAIN gifts :
        /\ gifts[g].status \in {"accepted", "declined"}
        /\ gifts[g].expires_at # Null /\ gifts[g].expires_at < now
        /\ gifts[g2].status = "expired"
        /\ gifts[g2].expires_at >= gifts[g].expires_at

\* The slots whose request is a cancellation of booking b made by a caller
\* entitled to it: the booking's account, or an admin.
CancellationsOf(b) ==
    {r \in Slots :
        /\ reqs[r].op \in {"cancel", "adminCancel"}
        /\ reqs[r].booking_id = b
        /\ reqs[r].op = "cancel" => reqs[r].actor = bookings[b].user}

\* C40: when two cancellations of the same paid booking, interleaved at
\* their reads and writes, have both ended, exactly one of them has
\* succeeded and the refund log holds exactly one entry for the booking.
C40_OneCancellationWins ==
    \A b \in DOMAIN bookings :
        (/\ bookings[b].is_paid
         /\ CancellationsOf(b) = Slots
         /\ \A r \in Slots : reqs[r].pc = "done") =>
            /\ Cardinality({r \in Slots : reqs[r].outcome = "Cancelled"}) = 1
            /\ Cardinality(RefundsOf(refunds, b)) = 1

====
